---- MODULE Spec2Model ----
(***************************************************************************)
(* Model of the text_to_speech handler of edge_tts_mcp_server/server.py:   *)
(* call_tool (primary attempt, degraded attempt), the playback branches,   *)
(* the temporary files and the detached _delayed_file_deletion tasks, all  *)
(* running on one asyncio event loop.                                      *)
(*                                                                         *)
(* A request is cut into the atomic segments asyncio gives it: code        *)
(* between two awaits runs without interleaving.  A synchronous call that  *)
(* waits (Popen.communicate, play_mp3_win32) keeps the event loop: it is   *)
(* modelled by the variable running, which names the request that holds    *)
(* the loop; nothing else steps while it is set.                           *)
(***************************************************************************)
EXTENDS Integers, Sequences, FiniteSets, TLC

\* Number of concurrent text_to_speech requests.
NumReq == 2

\* The NamedTemporaryFile calls one request can reach: .mp3 (line 244), .srt
\* (line 250), .mp3 of the degraded attempt (line 310).
MaxArtifacts == 3

\* Number of distinct names the temporary directory can hand out: enough for
\* every request to create all its files, so that a name is always to be had.
NumPaths == MaxArtifacts * NumReq

Req == 1..NumReq

Paths == 1..NumPaths

\* "No path": the value of srt_path = None, of an unset temp_path.
NoPath == 0

\* arguments.get("text") when the key is absent.
Missing == "<missing>"

Texts == {Missing, "", "Hello"}

\* rate / volume / pitch triples a request may carry ("0%" is the neutral default).
Prosodies ==
  { [rate |-> "0%",   volume |-> "0%",   pitch |-> "0%"],
    [rate |-> "+10%", volume |-> "0%",   pitch |-> "0%"],
    [rate |-> "+10%", volume |-> "-20%", pitch |-> "+5%"] }

\* The hosts the server may run on: platform.system(), whether which("mpv") finds
\* the player, whether the ctypes windll binding loads (Windows only, lines 28-33
\* and 50-72), and whether which("xdg-open") and which("open") find an opener
\* (looked up on non-Windows only, lines 280-285).
Hosts ==
  [platform : {"Windows"}, mpv : BOOLEAN, binding : BOOLEAN, xdg : {FALSE}, open : {FALSE}]
    \cup [platform : {"Other"}, mpv : BOOLEAN, binding : {FALSE}, xdg : BOOLEAN,
          open : BOOLEAN]

VARIABLES
  req,       \* per request: position, arguments, locals and history
  files,     \* paths that exist in the temporary directory
  creator,   \* path -> request that created the file last at that path (0: never)
  tasks,     \* <<path, request>> -> number of pending _delayed_file_deletion tasks
  running,   \* request that holds the event loop in a synchronous wait (0: none)
  host,      \* the machine: platform.system(), is_mpv_installed(), opener on the path
  deleted,   \* log of the files removed by deletion tasks
  delErrors, \* number of exceptions caught inside _delayed_file_deletion
  skipped,   \* paths a deletion task found absent at line 104
  lv,        \* one list_voices call: its argument, the provider's catalog, its result
  mci        \* one play_mp3_win32 call: the commands sent, their codes, its return value

vars == <<req, files, creator, tasks, running, host, deleted, delErrors, skipped, lv, mci>>

----------------------------------------------------------------------------
\* Pure helpers

\* Tool names the calls of the text_to_speech model carry: the right one and two
\* that no case of the match statement accepts.
ToolNames == {"text_to_speech", "speak", "LIST_VOICES"}

\* Lines 189-190, 209, 355: the match statement on the tool name.
Dispatch(name) ==
  IF name = "list_voices" THEN "list_voices"
  ELSE IF name = "text_to_speech" THEN "text_to_speech"
  ELSE "unknown"

\* Line 359: the text of the ValueError the caller gets, in parts.
Wrapped(msg) == <<"Error processing edge-tts query: ">> \o msg

\* Variant: the message does not carry the name.
UnknownToolMessage_noName(name) == <<"Unknown tool">>

\* Line 356: f"Unknown tool: {name}".
UnknownToolMessage(name) == <<"Unknown tool: ", name>>

\* Line 212: the text of the validation error.
MissingTextMessage == <<"Missing required argument: text">>

\* Variant: only an absent key is rejected (`if text is None`).
TextMissing_noneOnly(text) == text = Missing

\* `if not text` (line 211): None and "" are both falsy.
TextMissing(text) == text = Missing \/ text = ""

\* Variant: the caller's use_default_player flag is not consulted.
MpvAvailable_flagIgnored(use_default_player, installed) == installed

\* Lines 222-225: use_mpv = not use_default_player; mpv_available = use_mpv and is_mpv_installed().
MpvAvailable(use_default_player, installed) == (~use_default_player) /\ installed

\* Lines 236-241: a parameter is set on the communicator only if it differs from "0%".
AppliedProsody(p) ==
  (IF p.rate # "0%" THEN {"rate"} ELSE {})
    \cup (IF p.volume # "0%" THEN {"volume"} ELSE {})
    \cup (IF p.pitch # "0%" THEN {"pitch"} ELSE {})

\* Variant: the degraded communicator keeps the request's rate / volume / pitch.
DegradedProsody_kept(p) == AppliedProsody(p)

\* Line 307: the degraded communicator is built from text and voice alone.
DegradedProsody(p) == {}

\* Variant: the play_audio flag is not consulted.
PlayRequested_always(play_audio) == TRUE

\* Line 258 / 318: `if play_audio:`.
PlayRequested(play_audio) == play_audio

\* Lines 259-274 / 319-328: the if / elif / else chain that picks the player.
Backend(mpv_available, plat) ==
  IF mpv_available THEN "external-captioned"
  ELSE IF plat = "Windows" THEN "native-blocking"
  ELSE "os-default-opener"

\* Lines 280-285: the opener utility run, if any: xdg-open, else open, else none.
OpenerRun(h) ==
  IF h.xdg THEN "xdg-open"
  ELSE IF h.open THEN "open"
  ELSE "none"

\* Variant: the name is drawn without looking at the files that exist.
FreshNames_any(fs, cr) == Paths

\* Variant: every request writes to one fixed file name.
FreshNames_fixed(fs, cr) == {1}

\* tempfile.NamedTemporaryFile(delete=False): a name that no existing file has.
\* Names never used before are interchangeable, so only the smallest is offered;
\* every name that was used and is free again is offered too.
FreshNames(fs, cr) ==
  LET free == Paths \ fs
      reused == {p \in free : cr[p] # 0}
      unused == {p \in free : cr[p] = 0}
  IN reused \cup (IF unused = {} THEN {} ELSE {CHOOSE p \in unused : \A q \in unused : p <= q})

\* Lines 103-108: `if os.path.exists(temp_path): os.unlink(temp_path)`.
DeleteFile(p, fs) == IF p \in fs THEN fs \ {p} ELSE fs

\* os.unlink(path) raises FileNotFoundError when the path does not exist.
UnlinkRaises(p, fs) == p \notin fs

\* Variant: os.unlink is called without the os.path.exists test.
DeleteRaises_unchecked(p, fs) == UnlinkRaises(p, fs)

\* Lines 103-108: unlink is attempted only behind the os.path.exists test, so this
\* is whether the try block raises (the handler at 107-108 catches and prints it).
DeleteRaises(p, fs) == (p \in fs) /\ UnlinkRaises(p, fs)

\* Lines 85-92: the command strings play_mp3_win32 sends, in the order of the code.
MciCommands == <<"Close All", "Open Type MPEGVideo Alias theMP3", "Play theMP3 Wait",
                 "Close theMP3">>

\* Values mciSendStringW returns: 0 for success, anything else for an error.
MciCodes == {0, 1}

\* The play_mp3_win32 call before it starts.
InitMci ==
  [pc |-> "idle", loadable |-> TRUE, code |-> [k \in DOMAIN MciCommands |-> 0],
   sent |-> << >>, errors |-> << >>, result |-> "none"]

\* The list_voices call before it arrives.
InitVoices ==
  [pc |-> "idle", locale |-> Missing, catalog |-> << >>, outcome |-> "none", result |-> << >>]

InitReq ==
  [ pc |-> "idle",
    tool |-> Missing,
    message |-> << >>,
    text |-> Missing,
    prosody |-> [rate |-> "0%", volume |-> "0%", pitch |-> "0%"],
    play_audio |-> TRUE,
    use_default_player |-> FALSE,
    mpv_available |-> FALSE,
    temp_path |-> NoPath,
    srt_path |-> NoPath,
    audio1 |-> NoPath,
    audio2 |-> NoPath,
    sched |-> << >>,
    calls |-> << >>,
    synth |-> {},
    plays |-> << >>,
    sleeps |-> 0,
    degradedRuns |-> 0,
    primary |-> "none",
    degraded |-> "none",
    outcome |-> "none",
    cause |-> "none",
    audio_path |-> NoPath ]

Init ==
  /\ req = [r \in Req |-> InitReq]
  /\ files = {}
  /\ creator = [p \in Paths |-> 0]
  /\ tasks = [t \in Paths \X Req |-> 0]
  /\ running = 0
  /\ host \in Hosts
  /\ deleted = {}
  /\ delErrors = 0
  /\ skipped = {}
  /\ lv = InitVoices
  /\ mci = InitMci

----------------------------------------------------------------------------
\* Steps of call_tool

SetReq(r, rq) == req' = [req EXCEPT ![r] = rq]

\* The tasks after one create_task per element of the sequence s.
AddTasks(tk, s, r) ==
  [t \in Paths \X Req |-> tk[t] + Cardinality({i \in DOMAIN s : <<s[i], r>> = t})]

\* An exception inside the primary try block: control goes to `except Exception` (302).
Except(rq, why) == [rq EXCEPT !.pc = "except", !.primary = "failed", !.cause = why]

\* Variant: a failure of the degraded attempt is handled by trying again.
Fail_retry(rq, why) == [rq EXCEPT !.pc = "except", !.degraded = "failed", !.cause = why]

\* An exception inside the handler at 302-353: it reaches the outer handler (358-359),
\* which raises ValueError to the caller.
Fail(rq, why) ==
  [rq EXCEPT !.pc = "done", !.degraded = "failed", !.outcome = "error", !.cause = why]

\* Lines 297-299: the deletions the primary attempt schedules.
PrimarySched(rq, fs) ==
  <<rq.temp_path>>
    \o (IF rq.srt_path # NoPath /\ rq.srt_path \in fs THEN <<rq.srt_path>> ELSE << >>)

\* Line 351: the deletion the degraded attempt schedules.
DegradedSched(rq, fs) == <<rq.temp_path>>

\* Variant: the handler awaits its deletion coroutines instead of spawning them.
AfterScheduling_awaited == "reaping"

\* Lines 297-301 / 351-353: asyncio.create_task only spawns the coroutine; the
\* handler goes on to `return` without awaiting it.
AfterScheduling == "done"

\* Lines 290-301: build the result, schedule the deletions, return.
ReturnPrimary(r, rq) ==
  /\ SetReq(r, [rq EXCEPT !.pc = AfterScheduling, !.primary = "ok", !.outcome = "result",
                          !.audio_path = rq.temp_path,
                          !.sched = rq.sched \o PrimarySched(rq, files)])
  /\ tasks' = AddTasks(tasks, PrimarySched(rq, files), r)

\* Lines 344-353: build the result, schedule the deletion, return.
ReturnDegraded(r, rq) ==
  /\ SetReq(r, [rq EXCEPT !.pc = AfterScheduling, !.degraded = "ok", !.outcome = "result",
                          !.audio_path = rq.temp_path,
                          !.sched = rq.sched \o DegradedSched(rq, files)])
  /\ tasks' = AddTasks(tasks, DegradedSched(rq, files), r)

\* History: one entry per player the request tried to run; ok is whether it started.
Played(rq, n, b, sub, op, ok) ==
  [rq EXCEPT !.plays = Append(@, [attempt |-> n, backend |-> b, file |-> rq.temp_path,
                                  sub |-> sub, opener |-> op, ok |-> ok])]

\* History: one entry per communicate.save call, with the parameters set on it.
Called(rq, n, set) == [rq EXCEPT !.calls = Append(@, [attempt |-> n, set |-> set])]

\* Variant: the deletion of the audio file is spawned when the player starts.
WhilePlayingSched_early(rq) == <<rq.temp_path>>

\* Lines 258-288 / 318-342: the playback step spawns no deletion; create_task
\* comes after it, at 297-299 / 351.
WhilePlayingSched(rq) == << >>

\* Lines 257-288: what follows `await communicate.save(temp_path)` in the primary
\* attempt, up to the next point where the coroutine waits or ends.
PrimaryPlay(r, rq) ==
  IF ~PlayRequested(rq.play_audio)
  THEN ReturnPrimary(r, rq) /\ UNCHANGED running
  ELSE
    CASE Backend(rq.mpv_available, host.platform) = "external-captioned" ->
           \* subprocess.Popen(mpv_cmd) starts mpv or raises OSError
           \E launched \in BOOLEAN :
             IF launched
             THEN /\ SetReq(r, [Played(rq, 1, "external-captioned", rq.srt_path, "none", TRUE)
                                  EXCEPT !.pc = "playing1"])
                  /\ running' = r
                  /\ tasks' = AddTasks(tasks, WhilePlayingSched(rq), r)
             ELSE /\ SetReq(r, Except(Played(rq, 1, "external-captioned", rq.srt_path,
                                             "none", FALSE), "player"))
                  /\ UNCHANGED <<running, tasks>>
      [] Backend(rq.mpv_available, host.platform) = "native-blocking" ->
           \* play_mp3_win32 blocks while it plays, or returns False at once when
           \* the binding does not load (lines 48-72, 95-97)
           IF host.binding
           THEN /\ SetReq(r, [Played(rq, 1, "native-blocking", NoPath, "none", TRUE)
                                EXCEPT !.pc = "playing1"])
                /\ running' = r
                /\ tasks' = AddTasks(tasks, WhilePlayingSched(rq), r)
           ELSE /\ ReturnPrimary(r, Played(rq, 1, "native-blocking", NoPath, "none", FALSE))
                /\ UNCHANGED running
      [] Backend(rq.mpv_available, host.platform) = "os-default-opener" ->
           /\ SetReq(r, [Played(rq, 1, "os-default-opener", NoPath, OpenerRun(host), TRUE)
                           EXCEPT !.pc = "sleep1"])
           /\ tasks' = AddTasks(tasks, WhilePlayingSched(rq), r)
           /\ UNCHANGED running

\* Variant: the degraded attempt hands mpv the primary attempt's .srt.
DegradedSub_kept(rq) == rq.srt_path

\* Line 322: `["mpv", temp_path]`, no --sub-file option.
DegradedSub(rq) == NoPath

\* Lines 317-342: the same for the degraded attempt; mpv gets no --sub-file.
DegradedPlay(r, rq) ==
  IF ~PlayRequested(rq.play_audio)
  THEN ReturnDegraded(r, rq) /\ UNCHANGED running
  ELSE
    CASE Backend(rq.mpv_available, host.platform) = "external-captioned" ->
           \E launched \in BOOLEAN :
             IF launched
             THEN /\ SetReq(r, [Played(rq, 2, "external-captioned", DegradedSub(rq), "none",
                                       TRUE)
                                  EXCEPT !.pc = "playing2"])
                  /\ running' = r
                  /\ tasks' = AddTasks(tasks, WhilePlayingSched(rq), r)
             ELSE /\ SetReq(r, Fail(Played(rq, 2, "external-captioned", DegradedSub(rq),
                                           "none", FALSE), "player"))
                  /\ UNCHANGED <<running, tasks>>
      [] Backend(rq.mpv_available, host.platform) = "native-blocking" ->
           IF host.binding
           THEN /\ SetReq(r, [Played(rq, 2, "native-blocking", NoPath, "none", TRUE)
                                EXCEPT !.pc = "playing2"])
                /\ running' = r
                /\ tasks' = AddTasks(tasks, WhilePlayingSched(rq), r)
           ELSE /\ ReturnDegraded(r, Played(rq, 2, "native-blocking", NoPath, "none", FALSE))
                /\ UNCHANGED running
      [] Backend(rq.mpv_available, host.platform) = "os-default-opener" ->
           /\ SetReq(r, [Played(rq, 2, "os-default-opener", NoPath, OpenerRun(host), TRUE)
                           EXCEPT !.pc = "sleep2"])
           /\ tasks' = AddTasks(tasks, WhilePlayingSched(rq), r)
           /\ UNCHANGED running

\* Variant: the .srt is created whatever the player.
NeedsCaption_always(mpv_available) == TRUE

\* Line 249: `if mpv_available:` guards the creation of the .srt.
NeedsCaption(mpv_available) == mpv_available

\* Lines 243-254 for a request whose arguments are read: create the .mp3, create
\* the .srt when mpv is used, start the provider call.  (With no name left in the
\* bounded name space the request cannot start.)
PrimaryCreate(r, rq) ==
  \E p \in FreshNames(files, creator) :
    LET rq1 == [rq EXCEPT !.temp_path = p, !.audio1 = p]
        fs1 == files \cup {p}
        cr1 == [creator EXCEPT ![p] = r]
    IN IF ~NeedsCaption(rq.mpv_available)
       THEN /\ SetReq(r, [Called(rq1, 1, AppliedProsody(rq.prosody))
                              EXCEPT !.pc = "save1"])
            /\ files' = fs1
            /\ creator' = cr1
       ELSE \E q \in FreshNames(fs1, cr1) :
              /\ SetReq(r, [Called(rq1, 1, AppliedProsody(rq.prosody))
                                EXCEPT !.pc = "save1", !.srt_path = q])
              /\ files' = fs1 \cup {q}
              /\ creator' = [cr1 EXCEPT ![q] = r]

\* Lines 188-254, 355-359: a call arrives; a text_to_speech call runs to its first await.
Begin(r) ==
  /\ running = 0
  /\ req[r].pc = "idle"
  /\ \E name \in ToolNames :
       IF Dispatch(name) # "text_to_speech"
       THEN \* line 356 raises; lines 358-359 turn it into the caller's ValueError
            /\ SetReq(r, [req[r] EXCEPT !.pc = "done", !.tool = name,
                                         !.outcome = "error", !.cause = "unknown tool",
                                         !.message = Wrapped(UnknownToolMessage(name))])
            /\ UNCHANGED <<files, creator>>
       ELSE \E text \in Texts :
         IF TextMissing(text)
         THEN \* line 212 raises; lines 358-359 turn it into the caller's ValueError
              /\ SetReq(r, [req[r] EXCEPT !.pc = "done", !.tool = name, !.text = text,
                                           !.outcome = "error", !.cause = "validation",
                                           !.message = Wrapped(MissingTextMessage)])
              /\ UNCHANGED <<files, creator>>
         ELSE \E prosody \in Prosodies, play \in BOOLEAN, udp \in BOOLEAN :
                PrimaryCreate(r, [req[r] EXCEPT !.tool = name,
                                                !.text = text, !.prosody = prosody,
                                                !.play_audio = play,
                                                !.use_default_player = udp,
                                                !.mpv_available = MpvAvailable(udp, host.mpv),
                                                !.primary = "running"])
  /\ UNCHANGED <<tasks, running, host, deleted, delErrors, skipped, lv, mci>>

\* Line 254 completes: the provider either wrote the audio or raised.
SynthReturn1(r) ==
  /\ running = 0
  /\ req[r].pc = "save1"
  /\ \/ PrimaryPlay(r, [req[r] EXCEPT !.synth = @ \cup {1}])
     \/ SetReq(r, Except(req[r], "provider")) /\ UNCHANGED <<tasks, running>>
  /\ UNCHANGED <<files, creator, host, deleted, delErrors, skipped, lv, mci>>

\* Lines 267-273: process.communicate() / play_mp3_win32 returns; then 290-301.
PlayEnd1(r) ==
  /\ running = r
  /\ req[r].pc = "playing1"
  /\ ReturnPrimary(r, req[r])
  /\ running' = 0
  /\ UNCHANGED <<files, creator, host, deleted, delErrors, skipped, lv, mci>>

\* Line 288: asyncio.sleep(0.5) is over; then 290-301.
SleepEnd1(r) ==
  /\ running = 0
  /\ req[r].pc = "sleep1"
  /\ ReturnPrimary(r, [req[r] EXCEPT !.sleeps = @ + 1])
  /\ UNCHANGED <<files, creator, running, host, deleted, delErrors, skipped, lv, mci>>

\* Lines 302-314: the handler of the primary attempt's exception builds a plain
\* communicator, creates a new .mp3 and starts the provider call.
DegradedStart(r) ==
  /\ running = 0
  /\ req[r].pc = "except"
  /\ LET rq == [req[r] EXCEPT !.degraded = "running", !.degradedRuns = @ + 1]
     IN \E p \in FreshNames(files, creator) :
          /\ SetReq(r, [Called(rq, 2, DegradedProsody(rq.prosody))
                          EXCEPT !.pc = "save2", !.temp_path = p, !.audio2 = p])
          /\ files' = files \cup {p}
          /\ creator' = [creator EXCEPT ![p] = r]
  /\ UNCHANGED <<tasks, running, host, deleted, delErrors, skipped, lv, mci>>

\* Line 314 completes.
SynthReturn2(r) ==
  /\ running = 0
  /\ req[r].pc = "save2"
  /\ \/ DegradedPlay(r, [req[r] EXCEPT !.synth = @ \cup {2}])
     \/ SetReq(r, Fail(req[r], "provider")) /\ UNCHANGED <<tasks, running>>
  /\ UNCHANGED <<files, creator, host, deleted, delErrors, skipped, lv, mci>>

\* Lines 322-327 return; then 344-353.
PlayEnd2(r) ==
  /\ running = r
  /\ req[r].pc = "playing2"
  /\ ReturnDegraded(r, req[r])
  /\ running' = 0
  /\ UNCHANGED <<files, creator, host, deleted, delErrors, skipped, lv, mci>>

\* Line 342 is over; then 344-353.
SleepEnd2(r) ==
  /\ running = 0
  /\ req[r].pc = "sleep2"
  /\ ReturnDegraded(r, [req[r] EXCEPT !.sleeps = @ + 1])
  /\ UNCHANGED <<files, creator, running, host, deleted, delErrors, skipped, lv, mci>>

\* Lines 100-108: a deletion task wakes from asyncio.sleep(10) and removes its file.
Fire(p, r) ==
  /\ running = 0
  /\ tasks[<<p, r>>] > 0
  /\ tasks' = [tasks EXCEPT ![<<p, r>>] = @ - 1]
  /\ files' = DeleteFile(p, files)
  /\ delErrors' = delErrors + (IF DeleteRaises(p, files) THEN 1 ELSE 0)
  /\ deleted' = IF p \in files
                THEN deleted \cup {[path |-> p, of |-> creator[p], by |-> r,
                                    ofPc |-> req[creator[p]].pc]}
                ELSE deleted
  /\ skipped' = IF p \in files THEN skipped ELSE skipped \cup {p}
  /\ UNCHANGED <<req, creator, running, host, lv, mci>>

Next ==
  \/ \E r \in Req : Begin(r)
  \/ \E r \in Req : SynthReturn1(r)
  \/ \E r \in Req : PlayEnd1(r)
  \/ \E r \in Req : SleepEnd1(r)
  \/ \E r \in Req : DegradedStart(r)
  \/ \E r \in Req : SynthReturn2(r)
  \/ \E r \in Req : PlayEnd2(r)
  \/ \E r \in Req : SleepEnd2(r)
  \/ \E p \in Paths, r \in Req : Fire(p, r)

Spec == Init /\ [][Next]_vars

\* The steps of request r that end a provider call, a player run or a delay, and
\* the entry into the exception handler.
Progress(r) ==
  \/ SynthReturn1(r) \/ PlayEnd1(r) \/ SleepEnd1(r)
  \/ DegradedStart(r) \/ SynthReturn2(r) \/ PlayEnd2(r) \/ SleepEnd2(r)

\* Every provider call returns or raises, every player run and every delay ends,
\* and the event loop resumes a coroutine that can go on.  Nothing obliges a
\* caller to send a request, and a deletion task may wait as long as it likes.
FairSpec == Spec /\ \A r \in Req : WF_vars(Progress(r))

----------------------------------------------------------------------------
\* The deletion routine on its own: any set of existing files, any number (up to
\* MaxDup per path) of deletion tasks pending for any path, no request running.

\* Largest number of deletion tasks pending for one path in DelInit.
MaxDup == 2

\* Number of paths DelInit draws files and tasks from.
MaxDelPaths == 3

DelPaths == {p \in Paths : p <= MaxDelPaths}

DelInit ==
  /\ req = [r \in Req |-> InitReq]
  /\ files \in SUBSET DelPaths
  /\ creator = [p \in Paths |-> 1]
  /\ \E f \in [DelPaths -> 0..MaxDup] :
       tasks = [t \in Paths \X Req |->
                  IF t[2] = 1 /\ t[1] \in DelPaths THEN f[t[1]] ELSE 0]
  /\ running = 0
  /\ host = [platform |-> "Other", mpv |-> FALSE, binding |-> FALSE, xdg |-> FALSE, open |-> FALSE]
  /\ deleted = {}
  /\ delErrors = 0
  /\ skipped = {}
  /\ lv = InitVoices
  /\ mci = InitMci

DelNext == \E p \in Paths, r \in Req : Fire(p, r)

DelSpec == DelInit /\ [][DelNext]_vars

----------------------------------------------------------------------------
\* list_voices on its own: any catalog of up to MaxCatalog voices, any locale argument.

\* Longest catalog the provider returns in VoiceInit.
MaxCatalog == 3

\* The locale strings in play, as the provider spells them and as callers may.
LocaleStrings == {"ja-JP", "ja-jp", "en-US", "EN-US", "fr-FR"}

\* str.lower() on the locale strings.
Lower(str) ==
  CASE str = "ja-JP" -> "ja-jp"
    [] str = "ja-jp" -> "ja-jp"
    [] str = "en-US" -> "en-us"
    [] str = "EN-US" -> "en-us"
    [] str = "fr-FR" -> "fr-fr"
    [] OTHER -> str

\* Entries of the provider's catalog (they carry more keys than the four returned).
Voices ==
  { [Name |-> "Nanami", ShortName |-> "ja-JP-NanamiNeural", Locale |-> "ja-JP",
     Gender |-> "Female", Status |-> "GA"],
    [Name |-> "Keita", ShortName |-> "ja-JP-KeitaNeural", Locale |-> "ja-JP",
     Gender |-> "Male", Status |-> "GA"],
    [Name |-> "Aria", ShortName |-> "en-US-AriaNeural", Locale |-> "en-US",
     Gender |-> "Female", Status |-> "GA"] }

Catalogs == UNION {[1..n -> Voices] : n \in 0..MaxCatalog}

\* arguments.get("locale"): absent, empty, or a locale string.
LocaleArgs == {Missing, ""} \cup LocaleStrings

\* Line 195: `if locale:`.
LocaleGiven(locale) == locale # Missing /\ locale # ""

\* Variant: the locales are compared as they are spelled.
LocaleMatches_exact(voiceLocale, locale) == voiceLocale = locale

\* Line 196: v["Locale"].lower() == locale.lower().
LocaleMatches(voiceLocale, locale) == Lower(voiceLocale) = Lower(locale)

\* Lines 199-204: the four keys returned for a voice.
Descriptor(v) ==
  [name |-> v.Name, locale |-> v.Locale, gender |-> v.Gender, short_name |-> v.ShortName]

\* Lines 195-206: filter when a locale is given, then describe each voice in order.
ListResult(catalog, locale) ==
  LET Keep(v) == LocaleMatches(v.Locale, locale)
      kept == IF LocaleGiven(locale) THEN SelectSeq(catalog, Keep) ELSE catalog
  IN [i \in 1..Len(kept) |-> Descriptor(kept[i])]

\* Lines 190-193: a list_voices call arrives and awaits voices_manager.get_voices().
VoicesBegin ==
  /\ lv.pc = "idle"
  /\ lv' = [lv EXCEPT !.pc = "voices"]
  /\ UNCHANGED <<req, files, creator, tasks, running, host, deleted, delErrors, skipped, mci>>

\* Lines 193-207: get_voices returns the catalog, or raises and lines 358-359 turn
\* that into the caller's ValueError.
VoicesReturn ==
  /\ lv.pc = "voices"
  /\ \/ lv' = [lv EXCEPT !.pc = "done", !.outcome = "result",
                         !.result = ListResult(lv.catalog, lv.locale)]
     \/ lv' = [lv EXCEPT !.pc = "done", !.outcome = "error"]
  /\ UNCHANGED <<req, files, creator, tasks, running, host, deleted, delErrors, skipped, mci>>

VoiceInit ==
  /\ req = [r \in Req |-> InitReq]
  /\ files = {}
  /\ creator = [p \in Paths |-> 0]
  /\ tasks = [t \in Paths \X Req |-> 0]
  /\ running = 0
  /\ host = [platform |-> "Other", mpv |-> FALSE, binding |-> FALSE, xdg |-> FALSE, open |-> FALSE]
  /\ deleted = {}
  /\ delErrors = 0
  /\ skipped = {}
  /\ \E c \in Catalogs, l \in LocaleArgs :
       lv = [InitVoices EXCEPT !.catalog = c, !.locale = l]
  /\ mci = InitMci

VoiceNext == VoicesBegin \/ VoicesReturn

VoiceSpec == VoiceInit /\ [][VoiceNext]_vars

----------------------------------------------------------------------------
\* play_mp3_win32 on its own, on Windows: the ctypes binding loads or not, and
\* mciSendStringW answers each command with any code.

\* Lines 48-72: the imports and windll lookups succeed, or one raises and the
\* handler at 95-97 returns False.
MciLoad ==
  /\ mci.pc = "idle"
  /\ mci' = IF mci.loadable
            THEN [mci EXCEPT !.pc = "send"]
            ELSE [mci EXCEPT !.pc = "done", !.result = "False"]
  /\ UNCHANGED <<req, files, creator, tasks, running, host, deleted, delErrors, skipped, lv>>

\* Lines 74-80: mci_send prints when the code is not 0; what it returns is dropped
\* by the callers at 86-92.
MciLogged(k, code) == IF code # 0 THEN <<k>> ELSE << >>

\* Lines 86-92: the next command is sent whatever the earlier ones answered.
MciSend ==
  /\ mci.pc = "send"
  /\ Len(mci.sent) < Len(MciCommands)
  /\ LET k == Len(mci.sent) + 1
     IN mci' = [mci EXCEPT !.sent = Append(@, MciCommands[k]),
                           !.errors = @ \o MciLogged(k, mci.code[k])]
  /\ UNCHANGED <<req, files, creator, tasks, running, host, deleted, delErrors, skipped, lv>>

\* Line 94: `return True` after the last command.
MciReturn ==
  /\ mci.pc = "send"
  /\ Len(mci.sent) = Len(MciCommands)
  /\ mci' = [mci EXCEPT !.pc = "done", !.result = "True"]
  /\ UNCHANGED <<req, files, creator, tasks, running, host, deleted, delErrors, skipped, lv>>

MciInit ==
  /\ req = [r \in Req |-> InitReq]
  /\ files = {}
  /\ creator = [p \in Paths |-> 0]
  /\ tasks = [t \in Paths \X Req |-> 0]
  /\ running = 0
  /\ host = [platform |-> "Windows", mpv |-> FALSE, binding |-> TRUE, xdg |-> FALSE, open |-> FALSE]
  /\ deleted = {}
  /\ delErrors = 0
  /\ skipped = {}
  /\ lv = InitVoices
  /\ \E l \in BOOLEAN, c \in [DOMAIN MciCommands -> MciCodes] :
       mci = [InitMci EXCEPT !.loadable = l, !.code = c]

MciNext == MciLoad \/ MciSend \/ MciReturn

MciSpec == MciInit /\ [][MciNext]_vars

----------------------------------------------------------------------------
\* Vocabulary of the properties

Done(r) == req[r].pc = "done"

\* The request has read its arguments (text was present and not empty).
Accepted(r) == req[r].pc # "idle" /\ req[r].text \notin {Missing, ""}

\* The temporary files request r has created.
Artifacts(r) == {req[r].audio1, req[r].srt_path, req[r].audio2} \ {NoPath}

\* How many deletions of path p request r has scheduled.
Scheduled(r, p) == Cardinality({i \in DOMAIN req[r].sched : req[r].sched[i] = p})

\* The provider calls request r made in attempt n.
CallsIn(r, n) == {i \in DOMAIN req[r].calls : req[r].calls[i].attempt = n}

\* Every step request r can take.
StepOf(r) ==
  \/ Begin(r) \/ SynthReturn1(r) \/ PlayEnd1(r) \/ SleepEnd1(r)
  \/ DegradedStart(r) \/ SynthReturn2(r) \/ PlayEnd2(r) \/ SleepEnd2(r)

\* Request r waits at one of its suspension points.
Suspended(r) ==
  req[r].pc \in {"save1", "save2", "playing1", "playing2", "sleep1", "sleep2"}

----------------------------------------------------------------------------
\* C1: when a request has ended, every temporary file it created (each .mp3 and
\* the .srt) has exactly one deferred deletion scheduled for it, on every path
\* through the primary and the degraded attempt.
C1_ExactlyOneDeletion ==
  \A r \in Req : Done(r) => \A p \in Artifacts(r) : Scheduled(r, p) = 1

\* C2: a failed primary attempt is followed by exactly one degraded attempt, whose
\* provider call carries no rate, volume or pitch and whose outcome is the
\* request's outcome; a successful primary attempt is followed by none.
C2_DegradedOnce ==
  \A r \in Req :
    /\ req[r].degradedRuns <= 1
    /\ Cardinality(CallsIn(r, 2)) <= req[r].degradedRuns
    /\ \A i \in CallsIn(r, 2) : req[r].calls[i].set = {}
    /\ (req[r].primary = "failed" /\ req[r].pc # "except") => req[r].degradedRuns = 1
    /\ req[r].primary \in {"none", "running", "ok"} =>
         /\ req[r].degradedRuns = 0
         /\ req[r].degraded = "none"
         /\ req[r].audio2 = NoPath
    /\ (Done(r) /\ req[r].primary = "failed") =>
         /\ req[r].degraded \in {"ok", "failed"}
         /\ req[r].degraded = "ok" =>
              /\ req[r].outcome = "result"
              /\ req[r].audio_path = req[r].audio2
              /\ req[r].audio2 # NoPath
              /\ 2 \in req[r].synth
         /\ req[r].degraded = "failed" =>
              /\ req[r].outcome = "error"
              /\ req[r].audio_path = NoPath
    /\ (Done(r) /\ req[r].primary = "ok") =>
         /\ req[r].outcome = "result"
         /\ req[r].audio_path = req[r].audio1

\* C2 witness: a request with non-neutral prosody whose primary attempt failed has
\* returned the degraded attempt's result, while another one whose primary and
\* degraded attempts both failed has ended in the request-level failure.
C2_Witness ==
  \E r1, r2 \in Req :
    /\ Done(r1) /\ req[r1].primary = "failed" /\ req[r1].outcome = "result"
    /\ req[r1].calls # << >> /\ req[r1].calls[1].set # {}
    /\ Done(r2) /\ req[r2].primary = "failed" /\ req[r2].outcome = "error"

\* C3: a request whose text is missing or empty ends in a validation failure and
\* has created no file, called the provider never, run no player, waited for no
\* delay and scheduled no deletion.
C3_ValidationFirst ==
  \A r \in Req :
    (req[r].pc # "idle" /\ req[r].tool = "text_to_speech"
       /\ req[r].text \in {Missing, ""}) =>
      /\ Done(r)
      /\ req[r].outcome = "error"
      /\ req[r].cause = "validation"
      /\ Artifacts(r) = {}
      /\ \A p \in Paths : creator[p] # r /\ tasks[<<p, r>>] = 0
      /\ req[r].calls = << >>
      /\ req[r].plays = << >>
      /\ req[r].sleeps = 0
      /\ req[r].sched = << >>
      /\ running # r

\* C3 witness: one request was rejected for an empty text and one for an absent text.
C3_Witness ==
  \E r1, r2 \in Req :
    /\ Done(r1) /\ req[r1].text = "" /\ req[r1].cause = "validation"
    /\ Done(r2) /\ req[r2].text = Missing /\ req[r2].cause = "validation"

\* C4: whenever a request returns a result, the file named by audio_path exists,
\* is the file this request created under that name, and no deletion task (its
\* own or another request's) has removed it.
C4_AudioExistsAtReturn ==
  [][\A r \in Req :
       (req[r].pc # "done" /\ req'[r].pc = "done" /\ req'[r].outcome = "result") =>
         /\ req'[r].audio_path \in Paths
         /\ req'[r].audio_path \in files'
         /\ creator'[req'[r].audio_path] = r
         /\ \A d \in deleted' : ~(d.of = r /\ d.path = req'[r].audio_path)]_vars

\* C4 witness: a request has returned a result whose audio_path is a name that an
\* earlier file of the other request carried until that request's task deleted it.
C4_Witness ==
  \E r \in Req, d \in deleted :
    /\ req[r].outcome = "result"
    /\ d.by # r
    /\ d.path = req[r].audio_path
    /\ req[r].audio_path \in files

\* C5: a player that fails to start or to run never fails the attempt: once the
\* provider has written the audio file of an attempt, that attempt does not fail
\* and the request returns a result that carries a path.
C5_PlaybackNeverSurfaces ==
  \A r \in Req :
    /\ 1 \in req[r].synth => req[r].primary # "failed"
    /\ 2 \in req[r].synth => req[r].degraded # "failed"
    /\ (Done(r) /\ req[r].synth # {}) =>
         (req[r].outcome = "result" /\ req[r].audio_path # NoPath)

\* C6: with use_default_player false and mpv on the path, every player the request
\* runs is external-captioned; with use_default_player true none is; and on a host
\* without mpv a request never fails after its provider call succeeded.
C6_BackendSelection ==
  \A r \in Req :
    /\ \A i \in DOMAIN req[r].plays :
         /\ (~req[r].use_default_player /\ host.mpv) =>
              req[r].plays[i].backend = "external-captioned"
         /\ req[r].use_default_player =>
              req[r].plays[i].backend # "external-captioned"
    /\ (Accepted(r) /\ req[r].play_audio /\ ~req[r].use_default_player /\ host.mpv
          /\ req[r].outcome = "result") => req[r].plays # << >>
    /\ (~host.mpv /\ Done(r) /\ req[r].synth # {}) => req[r].outcome = "result"
    /\ (~host.mpv /\ req[r].tool = "text_to_speech" /\ req[r].outcome = "error") =>
         req[r].cause \in {"validation", "provider"}

\* C6 witness: on a host with mpv, one request with use_default_player false and
\* one with use_default_player true have both played their audio.
C6_Witness ==
  \E r1, r2 \in Req :
    /\ host.mpv
    /\ ~req[r1].use_default_player /\ req[r1].plays # << >> /\ Done(r1)
    /\ req[r2].use_default_player /\ req[r2].plays # << >> /\ Done(r2)

\* C6 witness on a host without mpv: a request that asked for mpv has played with
\* another backend and returned a result.
C6_WitnessAbsent ==
  \E r \in Req :
    /\ ~host.mpv /\ ~req[r].use_default_player
    /\ req[r].plays # << >> /\ req[r].outcome = "result"

\* C7: a request with play_audio false runs no player and waits for no playback
\* delay in either attempt, and when its provider call succeeded it returns the
\* path of the file that call wrote.
C7_NoPlayback ==
  \A r \in Req :
    (Accepted(r) /\ ~req[r].play_audio) =>
      /\ req[r].plays = << >>
      /\ req[r].sleeps = 0
      /\ req[r].pc \notin {"playing1", "playing2", "sleep1", "sleep2"}
      /\ running # r
      /\ (Done(r) /\ req[r].synth # {}) =>
           /\ req[r].outcome = "result"
           /\ req[r].audio_path = (IF 1 \in req[r].synth THEN req[r].audio1
                                                           ELSE req[r].audio2)
           /\ req[r].audio_path # NoPath

\* C7 witness: two requests with play_audio false have returned results, one from
\* the primary attempt and one from the degraded attempt.
C7_Witness ==
  \E r1, r2 \in Req :
    /\ ~req[r1].play_audio /\ req[r1].outcome = "result" /\ req[r1].primary = "ok"
    /\ ~req[r2].play_audio /\ req[r2].outcome = "result" /\ req[r2].degraded = "ok"

\* C8: while a request waits at a suspension point (provider call, player
\* subprocess, native playback, a delay), every other request under way can take
\* its next step and every pending deletion task can run.
C8_OnlyAwaiterSuspended ==
  \A r \in Req :
    Suspended(r) =>
      /\ \A r2 \in Req \ {r} : req[r2].pc \notin {"idle", "done"} => ENABLED StepOf(r2)
      /\ \A p \in Paths, r3 \in Req : tasks[<<p, r3>>] > 0 => ENABLED Fire(p, r3)

\* C9: a deletion task removes only a file that the request which scheduled it
\* created: every removal so far was of the scheduler's own file, and every
\* pending task that would remove an existing file is aimed at its scheduler's file.
C9_NoCrossRequestDeletion ==
  /\ \A d \in deleted : d.by = d.of
  /\ \A p \in Paths, r \in Req : (tasks[<<p, r>>] > 0 /\ p \in files) => creator[p] = r

\* C9 witness: one name has been used by both requests, each file removed by its
\* own request's task.
C9_Witness ==
  \E d1, d2 \in deleted :
    /\ d1.path = d2.path
    /\ d1.of # d2.of

\* C9 witness of the concurrent case: a deletion task has removed a file of one
\* request while the other request was between creating its files and returning.
C9_WitnessConcurrent ==
  \E d \in deleted, r \in Req :
    /\ r # d.of
    /\ Suspended(r)
    /\ Artifacts(r) # {}

\* C10: a deletion task that finds its path absent changes nothing and raises
\* nothing; after a task has run its path is gone and every other file is kept,
\* so deleting a path twice leaves the files that deleting it once leaves.
C10_DeletionIdempotent ==
  [][\A p \in Paths, r \in Req :
       Fire(p, r) =>
         /\ delErrors' = 0
         /\ p \notin files'
         /\ files' \ {p} = files \ {p}
         /\ (p \notin files => files' = files)]_vars

\* C10 witness: a path was deleted by one task and a second task for the same
\* path then ran and found it absent, with no error raised.
C10_Witness ==
  \E d \in deleted : d.path \in skipped /\ delErrors = 0 /\ d.path \notin files

\* Sets of locale strings that differ only in the case of their letters.
CaseClasses == {{"ja-JP", "ja-jp"}, {"en-US", "EN-US"}, {"fr-FR"}}

SameIgnoringCase(a, b) == \E c \in CaseClasses : a \in c /\ b \in c

\* C11: with a locale filter the result lists exactly the catalog entries whose
\* locale equals the filter ignoring case, in catalog order; with no filter it
\* lists every catalog entry in catalog order; each entry with its own name,
\* locale, gender and short name.
C11_ListVoices ==
  (lv.pc = "done" /\ lv.outcome = "result") =>
    LET cat == lv.catalog
        hit == IF lv.locale \in LocaleStrings
               THEN {i \in DOMAIN cat : SameIgnoringCase(cat[i].Locale, lv.locale)}
               ELSE DOMAIN cat
        Nth(k) == CHOOSE i \in hit : Cardinality({j \in hit : j < i}) = k - 1
    IN /\ Len(lv.result) = Cardinality(hit)
       /\ \A k \in 1..Len(lv.result) :
            /\ lv.result[k].name = cat[Nth(k)].Name
            /\ lv.result[k].locale = cat[Nth(k)].Locale
            /\ lv.result[k].gender = cat[Nth(k)].Gender
            /\ lv.result[k].short_name = cat[Nth(k)].ShortName

\* C11 witness: a filter spelled in another case than the catalog's has kept some
\* entries of a three-voice catalog and dropped others.
C11_Witness ==
  /\ lv.pc = "done" /\ lv.outcome = "result"
  /\ lv.locale \in {"ja-jp", "EN-US"}
  /\ Len(lv.catalog) = 3
  /\ Len(lv.result) \in {1, 2}

\* C12: a call whose tool name is neither list_voices nor text_to_speech has
\* failed as soon as it was dispatched, with a message that names the tool, and
\* has called no provider, created no file, run no player and scheduled no deletion.
C12_UnknownTool ==
  \A r \in Req :
    (req[r].pc # "idle" /\ req[r].tool \notin {"list_voices", "text_to_speech"}) =>
      /\ Done(r)
      /\ req[r].outcome = "error"
      /\ \E i \in DOMAIN req[r].message : req[r].message[i] = req[r].tool
      /\ \E i \in DOMAIN req[r].message : req[r].message[i] = "Unknown tool: "
      /\ req[r].calls = << >>
      /\ Artifacts(r) = {}
      /\ \A p \in Paths : creator[p] # r /\ tasks[<<p, r>>] = 0
      /\ req[r].plays = << >>
      /\ req[r].sleeps = 0
      /\ req[r].sched = << >>
      /\ req[r].audio_path = NoPath
      /\ running # r

\* C12 witness: a call named "speak" has failed while a text_to_speech call of
\* the other client is under way with its files created.
C12_Witness ==
  \E r1, r2 \in Req :
    /\ Done(r1) /\ req[r1].tool = "speak" /\ req[r1].outcome = "error"
    /\ req[r2].tool = "text_to_speech" /\ Artifacts(r2) # {} /\ ~Done(r2)

\* C13: the native backend sends close-all, open-with-alias, play-and-wait and
\* close-alias in that order, goes on after a non-zero code, and reports success
\* only if all four codes were zero (failure when at least one was not).
C13_NativeSequence ==
  (mci.pc = "done" /\ mci.loadable) =>
    /\ mci.sent = <<"Close All", "Open Type MPEGVideo Alias theMP3", "Play theMP3 Wait",
                    "Close theMP3">>
    /\ mci.result = "True" <=> (\A k \in DOMAIN mci.code : mci.code[k] = 0)

\* C14: a player other than mpv is the native blocking one only on a host that has
\* the native subsystem and whose binding loads; in every other case it is the
\* default opener, which runs at most one utility, the first found of xdg-open, open.
C14_NativeOnlyIfLoadable ==
  \A r \in Req : \A i \in DOMAIN req[r].plays :
    LET pl == req[r].plays[i]
    IN pl.backend # "external-captioned" =>
         IF host.platform = "Windows" /\ host.binding
         THEN pl.backend = "native-blocking"
         ELSE /\ pl.backend = "os-default-opener"
              /\ pl.opener = (CASE host.xdg -> "xdg-open"
                                [] ~host.xdg /\ host.open -> "open"
                                [] OTHER -> "none")

\* The request is in its degraded attempt.
InDegraded(r) == req[r].pc \in {"except", "save2", "playing2", "sleep2"}

\* C15: the degraded attempt plays with the backend chosen before the primary
\* attempt (the choice is not made again), creates no caption file and hands none
\* to the player; the only file it creates is one new audio file.
C15_DegradedFrame ==
  [][\A r \in Req :
       /\ \A i \in DOMAIN req'[r].plays :
            LET pl == req'[r].plays[i]
            IN pl.attempt = 2 =>
                 /\ pl.sub = NoPath
                 /\ pl.backend = "external-captioned" <=> req'[r].mpv_available
                 /\ \A j \in DOMAIN req'[r].plays :
                      req'[r].plays[j].backend = pl.backend
                 /\ pl.file = req'[r].audio2
       /\ (InDegraded(r) /\ req'[r] # req[r]) =>
            /\ req'[r].mpv_available = req[r].mpv_available
            /\ req'[r].use_default_player = req[r].use_default_player
            /\ req'[r].srt_path = req[r].srt_path
            /\ req'[r].audio1 = req[r].audio1
            /\ files' \ files = (IF req[r].pc = "except" THEN {req'[r].audio2} ELSE {})
            /\ req[r].pc = "except" =>
                 /\ req'[r].audio2 \in Paths \ files
                 /\ creator'[req'[r].audio2] = r
                 /\ \A p \in Paths \ {req'[r].audio2} : creator'[p] = creator[p]
            /\ req[r].pc # "except" => req'[r].audio2 = req[r].audio2]_vars

\* C15 witness: a request whose mpv failed to start in the primary attempt, with
\* its caption file still there, has played the new audio file of the degraded
\* attempt with mpv and returned it.
C15_Witness ==
  \E r \in Req :
    /\ Done(r) /\ req[r].degraded = "ok"
    /\ req[r].srt_path \in files
    /\ Len(req[r].plays) = 2
    /\ req[r].plays[1].attempt = 1 /\ req[r].plays[1].sub = req[r].srt_path
    /\ req[r].plays[2].attempt = 2 /\ req[r].plays[2].backend = "external-captioned"
    /\ req[r].audio2 \notin {NoPath, req[r].audio1, req[r].srt_path}

\* The request is in its primary attempt, past the creation of its files.
InPrimary(r) == req[r].pc \in {"save1", "playing1", "sleep1"}

\* C16: the primary attempt creates exactly one audio file, and exactly one caption
\* file if and only if the backend chosen is mpv; the caption file is there when
\* the provider call starts, so both files exist when the player starts.
C16_PrimaryFiles ==
  [][\A r \in Req :
       /\ (req[r].pc = "idle" /\ req'[r].pc = "save1") =>
            /\ req'[r].audio1 \in Paths \ files
            /\ req'[r].srt_path # NoPath <=> req'[r].mpv_available
            /\ req'[r].srt_path # NoPath => req'[r].srt_path \in Paths \ files
            /\ req'[r].srt_path # req'[r].audio1
            /\ files' \ files = {req'[r].audio1, req'[r].srt_path} \ {NoPath}
            /\ Len(req'[r].calls) = 1
       /\ (InPrimary(r) /\ req'[r] # req[r]) =>
            /\ files' \ files = {}
            /\ req'[r].audio1 = req[r].audio1
            /\ req'[r].srt_path = req[r].srt_path
       /\ InPrimary(r)' =>
            /\ req'[r].audio1 \in files' /\ creator'[req'[r].audio1] = r
            /\ req'[r].srt_path # NoPath =>
                 req'[r].srt_path \in files' /\ creator'[req'[r].srt_path] = r
            /\ \A i \in DOMAIN req'[r].plays :
                 /\ req'[r].plays[i].backend = "external-captioned"
                      <=> req'[r].srt_path # NoPath
                 /\ req'[r].plays[i].file = req'[r].audio1
                 /\ req'[r].plays[i].sub = req'[r].srt_path]_vars

\* C16 witness: mpv is playing the audio file of one request with its caption
\* file, both on disk, while the other request, which asked for the default
\* player, waits for the provider with an audio file and no caption file.
C16_Witness ==
  \E r1, r2 \in Req :
    /\ req[r1].pc = "playing1"
    /\ req[r1].plays[1].backend = "external-captioned"
    /\ {req[r1].audio1, req[r1].srt_path} \subseteq files
    /\ req[r1].audio1 # req[r1].srt_path
    /\ req[r2].pc = "save1" /\ req[r2].srt_path = NoPath /\ req[r2].audio1 \in files

\* C17: a request spawns its deletions without waiting for them: the step that
\* schedules them is the step that returns the response, it removes no file and
\* leaves every scheduled deletion pending; so no file of a request is ever
\* deleted before that request has returned.
C17_DeletionAfterResponse ==
  [][/\ \A r \in Req :
          req'[r].sched # req[r].sched =>
            /\ req'[r].pc = "done" /\ req'[r].outcome = "result"
            /\ files' = files
            /\ deleted' = deleted
            /\ \A i \in DOMAIN req'[r].sched :
                 tasks'[<<req'[r].sched[i], r>>] > 0
     /\ \A p \in Paths, r \in Req :
          tasks'[<<p, r>>] > 0 => (req'[r].pc = "done" /\ req'[r].outcome = "result")
     /\ \A d \in deleted' \ deleted :
          /\ d.ofPc = "done"
          /\ req[d.of].pc = "done" /\ req[d.of].outcome = "result"
          /\ req[d.by].pc = "done"]_vars

\* C17 witness: a request has returned with its deletion still pending and its
\* file on disk, and a file of the other request was deleted after that request
\* had returned.
C17_Witness ==
  \E r1, r2 \in Req :
    /\ r1 # r2
    /\ Done(r1) /\ req[r1].outcome = "result"
    /\ tasks[<<req[r1].audio_path, r1>>] > 0 /\ req[r1].audio_path \in files
    /\ \E d \in deleted : d.of = r2 /\ d.ofPc = "done" /\ d.path = req[r2].audio_path

\* The player request r started last, if it started one.
LastPlay(rq) == rq.plays[Len(rq.plays)]

\* C19: within an attempt the deletions are scheduled only once the playback step
\* (the player's run, or the opener and its short delay) is over, so while a
\* blocking player of a request runs, no deletion task of that request exists, no
\* file is deleted, and the files handed to the player are on disk.
C19_ScheduledAfterPlayback ==
  [][/\ \A r \in Req :
          /\ req'[r].pc \in {"playing1", "playing2", "sleep1", "sleep2"} =>
               /\ \A p \in Paths : tasks'[<<p, r>>] = 0
               /\ req'[r].sched = << >>
               /\ LastPlay(req'[r]).file = req'[r].temp_path
               /\ LastPlay(req'[r]).file \in files'
               /\ LastPlay(req'[r]).sub # NoPath => LastPlay(req'[r]).sub \in files'
          /\ running' = r => req'[r].pc \in {"playing1", "playing2"}
          /\ req'[r].sched # req[r].sched =>
               /\ running' # r
               /\ req[r].sched = << >>
               /\ req'[r].play_audio =>
                    /\ req'[r].plays # << >>
                    /\ \A i \in DOMAIN req'[r].sched :
                         req'[r].sched[i] \in {LastPlay(req'[r]).file, LastPlay(req'[r]).sub}
     /\ deleted' # deleted => (running = 0 /\ running' = 0)
     /\ running # 0 => files' = files]_vars

\* C19 witness: a request's blocking player runs in its degraded attempt while a
\* deletion task of the other request, which has returned, is pending on a file
\* that is still on disk.
C19_Witness ==
  \E r1, r2 \in Req :
    /\ running = r1 /\ req[r1].pc = "playing2"
    /\ req[r1].temp_path \in files
    /\ Done(r2) /\ req[r2].audio_path \in files /\ tasks[<<req[r2].audio_path, r2>>] > 0

\* C18: every text_to_speech request under way ends, in a result or in one
\* request-level failure, having made at most two provider calls (one per
\* attempt) and started at most two players (one per attempt), provided every
\* provider call and every player run ends; once ended it does nothing more.
C18_Terminates ==
  /\ \A r \in Req :
       (req[r].pc # "idle" /\ req[r].tool = "text_to_speech")
         ~> (req[r].pc = "done" /\ req[r].outcome \in {"result", "error"})
  /\ [](\A r \in Req :
         /\ Len(req[r].calls) <= 2
         /\ Len(req[r].plays) <= 2
         /\ \A n \in {1, 2} :
              /\ Cardinality({i \in DOMAIN req[r].calls : req[r].calls[i].attempt = n}) <= 1
              /\ Cardinality({i \in DOMAIN req[r].plays : req[r].plays[i].attempt = n}) <= 1
         /\ req[r].pc = "done" => req[r].outcome \in {"result", "error"})
  /\ [][\A r \in Req : req[r].pc = "done" => req'[r] = req[r]]_vars

\* C18 witness: a request has ended in a result after two provider calls and two
\* players, and the other in a failure after two provider calls.
C18_Witness ==
  \E r1, r2 \in Req :
    /\ Done(r1) /\ req[r1].outcome = "result"
    /\ Len(req[r1].calls) = 2 /\ Len(req[r1].plays) = 2
    /\ Done(r2) /\ req[r2].outcome = "error" /\ Len(req[r2].calls) = 2

====
